---- MODULE Spec2Model ----
(***************************************************************************)
(* Model of the document aligner's scoring pipeline (src/main.cpp): the    *)
(* reference corpus is loaded and TF/IDF-transformed, n_threads consumer   *)
(* threads are started around a blocking_queue<Document>, the main thread  *)
(* reads, transforms and pushes the candidate documents and finally runs   *)
(* stop(): one empty ("poison") document per consumer, then a join.        *)
(*                                                                         *)
(* Floats are modelled by naturals: a tfidf weight is an integer, a score  *)
(* is an integer sum of products and the threshold is an integer.          *)
(*                                                                         *)
(* A critical section of the queue (from taking _mutex to either           *)
(* wait() releasing it or mlock.unlock()) is one atomic step; the          *)
(* notify_one() that follows the unlock is a step of its own.  A waiting   *)
(* thread leaves its wait either by a notify_one or spuriously.            *)
(***************************************************************************)
EXTENDS Integers, Sequences, FiniteSets, TLC

\* ------------------------------------------------------------- bounds
\* Largest number of consumer threads tried (main.cpp:171 fixes 4).
MaxThreads == 2
\* Queue capacity per consumer thread (main.cpp:173 uses 4).
QueueFactor == 1
\* Largest number of reference documents read.
MaxRefs == 2
\* Largest number of candidate documents read before the stream must end.
MaxDocs == 3
\* Term hashes are 1..MaxTerm.
MaxTerm == 1
\* Occurrence counts of a term in a document are 1..MaxCount.
MaxCount == 1
\* Thresholds tried are 1..MaxThreshold.
MaxThreshold == 2

\* The pure functions (DF aggregation, alignment) are also checked on their
\* own, on inputs with term hashes 1..PureMaxTerm, counts and weights
\* 1..PureMaxCount and up to PureMaxRefs reference documents.
PureMaxTerm == 3
PureMaxCount == 2
PureMaxRefs == 3

\* Every term hash that occurs: the key space of df.
Terms == 1..(IF PureMaxTerm > MaxTerm THEN PureMaxTerm ELSE MaxTerm)

\* A vocab: std::map<hash, count> restricted to the terms it holds.
VocabsOver(maxTerm, maxCount) == UNION {[S -> 1..maxCount] : S \in SUBSET (1..maxTerm)}

\* The vocabs the input streams of a whole run are drawn from.
Vocabs == VocabsOver(MaxTerm, MaxCount)

EmptyVocab == [t \in {} |-> 0]

VARIABLES
    n_threads,   \* main.cpp:171
    threshold,   \* main.cpp:163
    documents,   \* main.cpp:117, the reference corpus
    df,          \* main.cpp:137, term -> document frequency (0: no entry)
    n,           \* main.cpp:165, candidates read
    hits,        \* main.cpp:167, atomic<size_t>
    _size,       \* blocking_queue::_size
    _buffer,     \* blocking_queue::_buffer
    mainPc,      \* position of the main thread
    buffer,      \* main.cpp:205, the document main is pushing
    stop_n,      \* main.cpp:196, poison documents pushed by stop()
    joined,      \* main.cpp:200, consumers joined so far
    status,      \* the status main returns, set where the code decides it (-1: not yet)
    output,      \* what main printed on stdout (main.cpp:243)
    wpc,         \* position of each consumer thread
    wbuffer,     \* main.cpp:178, the document each consumer popped
    wi,          \* main.cpp:184, each consumer's position in documents
    \* history (not program state)
    pushLog,     \* items whose push completed, in completion order
    popLog,      \* items removed by pop, in removal order
    sawFull,     \* the push in progress found the queue full
    popsWhenFull, \* Len(popLog) when it first did
    poisonTaken, \* poison documents each consumer has popped
    seen,        \* what the input has shown so far (see Events)
    scoreLog     \* (reference index, item seq) -> how often scored, score, hits counted

vars == <<n_threads, threshold, documents, df, n, hits, _size, _buffer,
          mainPc, buffer, stop_n, joined, status, output, wpc, wbuffer, wi,
          pushLog, popLog, sawFull, popsWhenFull, poisonTaken, seen, scoreLog>>

Consumers == 1..n_threads

\* ------------------------------------------------------- pure helpers
Min(S) == CHOOSE x \in S : \A y \in S : x <= y

\* Iteration order of std::map: ascending by key.
RECURSIVE SortedSeq(_)
SortedSeq(S) == IF S = {} THEN <<>> ELSE <<Min(S)>> \o SortedSeq(S \ {Min(S)})

\* Mutant: df adds up the occurrence counts instead of counting documents.
RECURSIVE aggregate_df_counts(_, _)
aggregate_df_counts(docs, acc) ==
    IF docs = <<>> THEN acc
    ELSE aggregate_df_counts(Tail(docs),
            [t \in Terms |-> acc[t] + (IF t \in DOMAIN Head(docs).vocab
                                       THEN Head(docs).vocab[t] ELSE 0)])

\* main.cpp:139-141: df[entry.first] += 1 for every entry of every document.
RECURSIVE aggregate_df(_, _)
aggregate_df(docs, acc) ==
    IF docs = <<>> THEN acc
    ELSE aggregate_df(Tail(docs),
            [t \in Terms |-> acc[t] + (IF t \in DOMAIN Head(docs).vocab THEN 1 ELSE 0)])

\* Weight of one term: term frequency times an inverse document frequency that
\* decreases with df (integer stand-in for tf * log(document_count / df)).
tfidf(tf, document_count, term_df) == tf * (document_count - term_df + 1)

\* document.h:42: the sorted (hash, tfidf) list of the document's terms; a term
\* without an entry in df is dropped.
calculate_tfidf(vocab, document_count, dfTable) ==
    LET kept == SortedSeq({t \in DOMAIN vocab : dfTable[t] > 0})
    IN  [k \in 1..Len(kept) |->
            [hash |-> kept[k],
             tfidf |-> tfidf(vocab[kept[k]], document_count, dfTable[kept[k]])]]

\* Mutant: on inequality the left cursor advances, whichever hash is smaller.
RECURSIVE merge_join_left(_, _, _, _)
merge_join_left(left, right, i, j) ==
    IF i > Len(left) \/ j > Len(right) THEN 0
    ELSE IF left[i].hash = right[j].hash
         THEN left[i].tfidf * right[j].tfidf + merge_join_left(left, right, i + 1, j + 1)
    ELSE merge_join_left(left, right, i + 1, j)

\* document.h:44: merge join of two wordvecs sorted by hash.
RECURSIVE merge_join(_, _, _, _)
merge_join(left, right, i, j) ==
    IF i > Len(left) \/ j > Len(right) THEN 0
    ELSE IF left[i].hash = right[j].hash
         THEN left[i].tfidf * right[j].tfidf + merge_join(left, right, i + 1, j + 1)
    ELSE IF left[i].hash < right[j].hash
         THEN merge_join(left, right, i + 1, j)
    ELSE merge_join(left, right, i, j + 1)

calculate_alignment(left, right) == merge_join(left.wordvec, right.wordvec, 1, 1)

\* Mutant: the capacity test off by one.
QueueFullOffByOne(buf, size) == Len(buf) > size

\* ------------------------------------------------- decisions of the code
\* main.cpp:47 and :58: while (_buffer.size() >= _size) wait
QueueFull(buf, size) == Len(buf) >= size

\* Mutant: an if in place of the while, a woken push inserts without looking.
PushMustWaitOnce(buf, size, waited) == ~waited /\ QueueFull(buf, size)

\* main.cpp:47-48: the condition is evaluated again after every wait, whether
\* or not this push has waited before
PushMustWait(buf, size, waited) == QueueFull(buf, size)

\* main.cpp:69: while (_buffer.empty()) wait
QueueEmpty(buf) == buf = <<>>

\* Mutant: the newest item is returned.
FrontIsBack(buf) == buf[Len(buf)]

\* main.cpp:72: _buffer.front()
Front(buf) == Head(buf)

\* Mutant: the returned item stays in the queue.
RestKeepsFront(buf) == buf

\* main.cpp:73: _buffer.pop()
Rest(buf) == Tail(buf)

\* Mutant: the consumer does not recognise poison.
IsPoisonNever(doc) == FALSE

\* Mutant: a consumer takes whatever it pops for poison.
IsPoisonAlways(doc) == TRUE

\* main.cpp:181: if (buffer.wordvec.empty()) break;
IsPoison(doc) == doc.wordvec = <<>>

\* Mutant: a score equal to the threshold is no hit.
MeetsThresholdStrict(score, th) == score > th

\* main.cpp:187: if (score >= threshold)
MeetsThreshold(score, th) == score >= th

\* Mutant: a hit is counted twice.
IncHitsTwice(h) == h + 2

\* main.cpp:189: ++hits on the atomic counter
IncHits(h) == h + 1

\* Mutant: stop() sends one poison document too few.
PoisonCountShort == n_threads - 1

\* Mutant: stop() pushes one poison document too many.
PoisonCountExtra == n_threads + 1

\* main.cpp:196: for (size_t n = 0; n < n_threads; ++n) queue.push(Document())
PoisonCount == n_threads

\* Mutant: stop() does not wait for the thread.
JoinReadyAlways(w) == TRUE

\* main.cpp:201: consumer.join() returns once that thread has finished
JoinReady(w) == wpc[w] = "exited"

\* main.cpp:218: if (buffer.vocab.empty())
RejectEmptyVocab(vocab) == vocab = EmptyVocab

\* Mutant: the check after calculate_tfidf is missing.
RejectEmptyWordvecNever(wordvec) == FALSE

\* main.cpp:230: if (buffer.wordvec.empty())
RejectEmptyWordvec(wordvec) == wordvec = <<>>

\* Mutant: an error path returns without stop().
OnCandidateErrorNoStop == "exit"

\* main.cpp:212, :220, :232: every candidate-side error runs stop() before return
OnCandidateError == "stop"

\* Mutant: the candidate's terms are counted into df.
DfAfterCandidateCounted(dfTable, vocab) ==
    [t \in Terms |-> dfTable[t] + (IF t \in DOMAIN vocab THEN 1 ELSE 0)]

\* main.cpp:225: calculate_tfidf takes df by const reference: transforming a
\* candidate leaves df as it is (main.cpp:158: "not included in the DF table").
DfAfterCandidate(dfTable, vocab) == dfTable

\* The statuses main returns.
\* main.cpp:127
StatusReferenceUrl == 2
\* main.cpp:213
StatusCandidateUrl == 3

\* Mutant: the empty-vocab failure returns the status of the url failure.
StatusEmptyVocabAsUrl == StatusCandidateUrl

\* main.cpp:221
StatusEmptyVocab == 4
\* main.cpp:233
StatusEmptyWordvec == 5
\* main.cpp:244: main ends without a return statement
StatusSuccess == 0

\* Mutant: a failed run goes on to print the hits as well.
ReturnsAfterStopNever(st) == FALSE

\* main.cpp:212-213, :220-221, :232-233: after stop() a failed run returns its
\* status; only the run whose loop ended at line 208 goes on to line 243.
ReturnsAfterStop(st) == st /= StatusSuccess

\* History: what the two input streams have shown.
Events == {"ref_nourl", "ref_degenerate", "cand_nourl", "cand_degenerate", "cand_eof"}

\* History: no pair scored yet.
NoScores == [p \in {} |-> 0]

\* History: the log with one more scoring of pair p, which gave score s and
\* added c to hits.
Logged(log, p, s, c) ==
    LET old == IF p \in DOMAIN log THEN log[p] ELSE [times |-> 0, score |-> 0, counted |-> 0]
    IN  [q \in DOMAIN log \cup {p} |->
            IF q = p
            THEN [times |-> old.times + 1, score |-> s, counted |-> old.counted + c]
            ELSE log[q]]

\* What travels through the queue: the document (its vocab was cleared, so only
\* the wordvec is left) with its history tag: the number of the push and whether
\* stop() made it.
Item(wordvec, poison) == [wordvec |-> wordvec, seq |-> Len(pushLog) + 1, poison |-> poison]

NoItem == [wordvec |-> <<>>, seq |-> 0, poison |-> FALSE]

\* ---------------------------------------------------------------- Init
Init ==
    /\ n_threads \in 1..MaxThreads
    /\ threshold \in 1..MaxThreshold
    /\ documents = <<>>
    /\ df = [t \in Terms |-> 0]
    /\ n = 0
    /\ hits = 0
    /\ _size = n_threads * QueueFactor
    /\ _buffer = <<>>
    /\ mainPc = "read_ref"
    /\ buffer = NoItem
    /\ stop_n = 0
    /\ joined = 0
    /\ status = -1
    /\ output = <<>>
    /\ wpc = [w \in 1..n_threads |-> "unstarted"]
    /\ wbuffer = [w \in 1..n_threads |-> NoItem]
    /\ wi = [w \in 1..n_threads |-> 0]
    /\ pushLog = <<>>
    /\ popLog = <<>>
    /\ sawFull = FALSE
    /\ popsWhenFull = 0
    /\ poisonTaken = [w \in 1..n_threads |-> 0]
    /\ seen = {}
    /\ scoreLog = NoScores

queueVars == <<_size, _buffer, pushLog, popLog, sawFull, popsWhenFull>>
workerVars == <<wpc, wbuffer, wi, poisonTaken>>
corpusVars == <<n_threads, threshold, documents, df>>
histVars == <<seen, scoreLog>>

\* ------------------------------------------------------- the main thread
\* main.cpp:124-131: read the next reference document and its url.
ReadReference ==
    /\ mainPc = "read_ref"
    /\ \/ \* tokens_in is exhausted
          /\ mainPc' = "aggregate_df"
          /\ UNCHANGED <<documents, status, seen>>
       \/ \* a document and its url
          /\ Len(documents) < MaxRefs
          /\ \E v \in Vocabs :
                documents' = Append(documents, [vocab |-> v, wordvec |-> <<>>])
          /\ UNCHANGED <<mainPc, status, seen>>
       \/ \* a document without a url: return 2
          /\ Len(documents) < MaxRefs
          /\ status' = StatusReferenceUrl
          /\ mainPc' = "exit"
          /\ seen' = seen \cup {"ref_nourl"}
          /\ UNCHANGED documents
    /\ UNCHANGED <<n_threads, threshold, df, n, hits, buffer, stop_n, joined, output>>
    /\ UNCHANGED <<queueVars, workerVars, scoreLog>>

\* main.cpp:137-141
AggregateDF ==
    /\ mainPc = "aggregate_df"
    /\ df' = aggregate_df(documents, [t \in Terms |-> 0])
    /\ mainPc' = "tfidf"
    /\ UNCHANGED <<n_threads, threshold, documents, n, hits, buffer, stop_n, joined,
                   status, output>>
    /\ UNCHANGED <<queueVars, workerVars, histVars>>

\* main.cpp:147-153: calculate_tfidf on every reference document, vocab cleared
TfidfReferences ==
    /\ mainPc = "tfidf"
    /\ documents' = [i \in 1..Len(documents) |->
            [vocab |-> EmptyVocab,
             wordvec |-> calculate_tfidf(documents[i].vocab, Len(documents), df)]]
    /\ mainPc' = "start"
    /\ seen' = seen \cup
            (IF \E i \in 1..Len(documents) :
                    calculate_tfidf(documents[i].vocab, Len(documents), df) = <<>>
             THEN {"ref_degenerate"} ELSE {})
    /\ UNCHANGED <<n_threads, threshold, df, n, hits, buffer, stop_n, joined,
                   status, output>>
    /\ UNCHANGED <<queueVars, workerVars, scoreLog>>

\* main.cpp:175-192: the consumer threads are created and start at queue.pop()
StartConsumers ==
    /\ mainPc = "start"
    /\ wpc' = [w \in Consumers |-> "pop"]
    /\ mainPc' = "read_cand"
    /\ UNCHANGED <<corpusVars, n, hits, buffer, stop_n, joined, status, output>>
    /\ UNCHANGED <<queueVars, wbuffer, wi, poisonTaken, histVars>>

\* main.cpp:204-235: read the next candidate, transform it, decide to push it
ReadCandidate ==
    /\ mainPc = "read_cand"
    /\ \/ \* en_tokens_in is exhausted: break, stop(), print
          /\ mainPc' = "stop"
          /\ status' = StatusSuccess
          /\ seen' = seen \cup {"cand_eof"}
          /\ UNCHANGED <<n, buffer, df>>
       \/ \* a document without a url: stop(); return 3
          /\ n < MaxDocs
          /\ mainPc' = OnCandidateError
          /\ status' = StatusCandidateUrl
          /\ seen' = seen \cup {"cand_nourl"}
          /\ UNCHANGED <<n, buffer, df>>
       \/ \* a document and its url
          /\ n < MaxDocs
          /\ \E v \in Vocabs :
                LET wordvec == calculate_tfidf(v, Len(documents), df) IN
                /\ n' = n + 1
                /\ seen' = seen \cup
                        (IF calculate_tfidf(v, Len(documents), df) = <<>>
                         THEN {"cand_degenerate"} ELSE {})
                /\ IF RejectEmptyVocab(v)
                   THEN /\ mainPc' = OnCandidateError
                        /\ status' = StatusEmptyVocab
                        /\ UNCHANGED <<buffer, df>>
                   ELSE /\ df' = DfAfterCandidate(df, v)
                        /\ IF RejectEmptyWordvec(wordvec)
                           THEN /\ mainPc' = OnCandidateError
                                /\ status' = StatusEmptyWordvec
                                /\ UNCHANGED buffer
                           ELSE /\ mainPc' = "push"
                                /\ buffer' = Item(wordvec, FALSE)
                                /\ UNCHANGED status
    /\ UNCHANGED <<n_threads, threshold, documents, hits, stop_n, joined, output>>
    /\ UNCHANGED <<queueVars, workerVars, scoreLog>>

\* main.cpp:44-51: the critical section of push. Full: wait on _removed
\* (releasing the mutex). Otherwise insert and unlock.
Push ==
    /\ mainPc = "push"
    /\ IF PushMustWait(_buffer, _size, sawFull)
       THEN /\ mainPc' = "push_wait"
            /\ sawFull' = TRUE
            /\ popsWhenFull' = (IF sawFull THEN popsWhenFull ELSE Len(popLog))
            /\ UNCHANGED <<_buffer, pushLog>>
       ELSE /\ _buffer' = Append(_buffer, buffer)
            /\ pushLog' = Append(pushLog, buffer)
            /\ mainPc' = "push_notify"
            /\ UNCHANGED <<sawFull, popsWhenFull>>
    /\ UNCHANGED <<corpusVars, n, hits, buffer, stop_n, joined, status, output>>
    /\ UNCHANGED <<_size, popLog, workerVars, histVars>>

\* main.cpp:52: _added.notify_one() wakes one consumer waiting in pop, if any;
\* push returns to the candidate loop or to stop().
PushNotify ==
    /\ mainPc = "push_notify"
    /\ \/ /\ \E w \in Consumers :
                /\ wpc[w] = "pop_wait"
                /\ wpc' = [wpc EXCEPT ![w] = "pop"]
       \/ /\ \A w \in Consumers : wpc[w] /= "pop_wait"
          /\ UNCHANGED wpc
    /\ mainPc' = (IF buffer.poison THEN "stop" ELSE "read_cand")
    /\ sawFull' = FALSE
    /\ popsWhenFull' = 0
    /\ UNCHANGED <<corpusVars, n, hits, buffer, stop_n, joined, status, output>>
    /\ UNCHANGED <<_size, _buffer, pushLog, popLog, wbuffer, wi, poisonTaken, histVars>>

\* main.cpp:196-197: stop() pushes one poison document per consumer
StopPush ==
    /\ mainPc = "stop"
    /\ IF stop_n < PoisonCount
       THEN /\ buffer' = Item(<<>>, TRUE)
            /\ stop_n' = stop_n + 1
            /\ mainPc' = "push"
       ELSE /\ mainPc' = "join"
            /\ UNCHANGED <<buffer, stop_n>>
    /\ UNCHANGED <<corpusVars, n, hits, joined, status, output>>
    /\ UNCHANGED <<queueVars, workerVars, histVars>>

\* main.cpp:200-201: join the consumers in order; then stop() returns
Join ==
    /\ mainPc = "join"
    /\ IF joined < n_threads
       THEN /\ JoinReady(joined + 1)
            /\ joined' = joined + 1
            /\ UNCHANGED mainPc
       ELSE /\ mainPc' = (IF ReturnsAfterStop(status) THEN "exit" ELSE "print")
            /\ UNCHANGED joined
    /\ UNCHANGED <<corpusVars, n, hits, buffer, stop_n, status, output>>
    /\ UNCHANGED <<queueVars, workerVars, histVars>>

\* main.cpp:243: cout << hits.load()
PrintHits ==
    /\ mainPc = "print"
    /\ output' = Append(output, hits)
    /\ mainPc' = "exit"
    /\ UNCHANGED <<corpusVars, n, hits, buffer, stop_n, joined, status>>
    /\ UNCHANGED <<queueVars, workerVars, histVars>>

\* ------------------------------------------------- the consumer threads
\* main.cpp:66-74: the critical section of pop. Empty: wait on _added
\* (releasing the mutex). Otherwise take the front and unlock.
Pop(w) ==
    /\ wpc[w] = "pop"
    /\ IF QueueEmpty(_buffer)
       THEN /\ wpc' = [wpc EXCEPT ![w] = "pop_wait"]
            /\ UNCHANGED <<_buffer, popLog, wbuffer, poisonTaken>>
       ELSE /\ wbuffer' = [wbuffer EXCEPT ![w] = Front(_buffer)]
            /\ poisonTaken' = [poisonTaken EXCEPT
                    ![w] = @ + (IF Front(_buffer).poison THEN 1 ELSE 0)]
            /\ popLog' = Append(popLog, Front(_buffer))
            /\ _buffer' = Rest(_buffer)
            /\ wpc' = [wpc EXCEPT ![w] = "pop_notify"]
    /\ UNCHANGED <<corpusVars, n, hits, mainPc, buffer, stop_n, joined, status, output>>
    /\ UNCHANGED <<_size, pushLog, sawFull, popsWhenFull, wi, histVars>>

\* main.cpp:75: _removed.notify_one() wakes the thread waiting in push, if any
PopNotify(w) ==
    /\ wpc[w] = "pop_notify"
    /\ wpc' = [wpc EXCEPT ![w] = "check"]
    /\ mainPc' = (IF mainPc = "push_wait" THEN "push" ELSE mainPc)
    /\ UNCHANGED <<corpusVars, n, hits, buffer, stop_n, joined, status, output>>
    /\ UNCHANGED <<queueVars, wbuffer, wi, poisonTaken, histVars>>

\* main.cpp:180-184: an empty document is poison; otherwise start the loop
\* over the reference documents
CheckPoison(w) ==
    /\ wpc[w] = "check"
    /\ IF IsPoison(wbuffer[w])
       THEN /\ wpc' = [wpc EXCEPT ![w] = "exited"]
            /\ UNCHANGED wi
       ELSE /\ wpc' = [wpc EXCEPT ![w] = "score"]
            /\ wi' = [wi EXCEPT ![w] = 1]
    /\ UNCHANGED <<corpusVars, n, hits, mainPc, buffer, stop_n, joined, status, output>>
    /\ UNCHANGED <<queueVars, wbuffer, poisonTaken, histVars>>

\* main.cpp:184-190: one iteration of the loop over the reference documents
Score(w) ==
    /\ wpc[w] = "score"
    /\ IF wi[w] <= Len(documents)
       THEN /\ hits' = (IF MeetsThreshold(calculate_alignment(documents[wi[w]], wbuffer[w]),
                                          threshold)
                        THEN IncHits(hits) ELSE hits)
            /\ scoreLog' = Logged(scoreLog, <<wi[w], wbuffer[w].seq>>,
                                  calculate_alignment(documents[wi[w]], wbuffer[w]),
                                  hits' - hits)
            /\ wi' = [wi EXCEPT ![w] = wi[w] + 1]
            /\ UNCHANGED wpc
       ELSE /\ wpc' = [wpc EXCEPT ![w] = "pop"]
            /\ UNCHANGED <<hits, wi, scoreLog>>
    /\ UNCHANGED <<corpusVars, n, mainPc, buffer, stop_n, joined, status, output>>
    /\ UNCHANGED <<queueVars, wbuffer, poisonTaken, seen>>

\* ------------------------------------------------------ spurious wake-ups
\* condition_variable::wait may return without a notify (main.cpp:48, :70).
SpuriousWakeMain ==
    /\ mainPc = "push_wait"
    /\ mainPc' = "push"
    /\ UNCHANGED <<corpusVars, n, hits, buffer, stop_n, joined, status, output>>
    /\ UNCHANGED <<queueVars, workerVars, histVars>>

SpuriousWakeConsumer(w) ==
    /\ wpc[w] = "pop_wait"
    /\ wpc' = [wpc EXCEPT ![w] = "pop"]
    /\ UNCHANGED <<corpusVars, n, hits, mainPc, buffer, stop_n, joined, status, output>>
    /\ UNCHANGED <<queueVars, wbuffer, wi, poisonTaken, histVars>>

\* ------------------------------------------------------------------ Next
MainStep ==
    \/ ReadReference
    \/ AggregateDF
    \/ TfidfReferences
    \/ StartConsumers
    \/ ReadCandidate
    \/ Push
    \/ PushNotify
    \/ StopPush
    \/ Join
    \/ PrintHits

ConsumerStep(w) ==
    \/ Pop(w)
    \/ PopNotify(w)
    \/ CheckPoison(w)
    \/ Score(w)

Next ==
    \/ MainStep
    \/ \E w \in Consumers : ConsumerStep(w)
    \/ SpuriousWakeMain
    \/ \E w \in Consumers : SpuriousWakeConsumer(w)

Spec == Init /\ [][Next]_vars

\* Every thread that can run is eventually scheduled; a spurious wake-up is
\* never owed.
FairSpec ==
    /\ Spec
    /\ WF_vars(MainStep)
    /\ \A w \in 1..MaxThreads : WF_vars(w \in Consumers /\ ConsumerStep(w))

\* ===================================================================
\* Properties
\* ===================================================================
PoisonPushed == Cardinality({k \in 1..Len(pushLog) : pushLog[k].poison})

CandidatesPushed == {k \in 1..Len(pushLog) : ~pushLog[k].poison}

ConsumersStarted == \E w \in Consumers : wpc[w] /= "unstarted"

AllExited == \A w \in Consumers : wpc[w] = "exited"

\* stop() has returned: main is past the join loop.
StopReturned == mainPc \in {"print", "exit"} /\ ConsumersStarted

\* Brute-force score, independent of the merge join: the sum over the hashes
\* both wordvecs hold of the product of their weights.
Hashes(wordvec) == {wordvec[i].hash : i \in 1..Len(wordvec)}

WeightOf(wordvec, h) == wordvec[CHOOSE i \in 1..Len(wordvec) : wordvec[i].hash = h].tfidf

RECURSIVE SumProducts(_, _, _)
SumProducts(a, b, S) ==
    IF S = {} THEN 0
    ELSE LET h == CHOOSE x \in S : TRUE
         IN  WeightOf(a, h) * WeightOf(b, h) + SumProducts(a, b, S \ {h})

BruteForceScore(a, b) == SumProducts(a, b, Hashes(a) \cap Hashes(b))

BruteForceHits ==
    Cardinality({p \in (1..Len(documents)) \X CandidatesPushed :
        BruteForceScore(documents[p[1]].wordvec, pushLog[p[2]].wordvec) >= threshold})

\* C1: under fair scheduling of the threads every run terminates: main reaches
\* its return, and once the consumers were started all of them have left their
\* loop by then (stop() pushed its poison and the join returned).
C1_Termination == <>(mainPc = "exit" /\ (ConsumersStarted => AllExited))

\* C1 witness: a run with two consumers and more items than the queue holds,
\* in which a push had to wait, has ended with every consumer exited.
C1_Witness ==
    /\ mainPc = "exit"
    /\ n_threads = 2
    /\ n = MaxDocs
    /\ Len(pushLog) > _size
    /\ AllExited

\* C2: on a successful run the one number printed is the number of (reference
\* document, candidate document) pairs whose brute-force score is at least the
\* threshold.
C2_HitCount == (mainPc = "exit" /\ status = 0) => output = <<BruteForceHits>>

\* C2 witness: a successful run of two consumers over two reference documents
\* that printed at least two hits and scored at least one pair below threshold.
C2_Witness ==
    /\ mainPc = "exit"
    /\ status = 0
    /\ n_threads = 2
    /\ Len(documents) = 2
    /\ Cardinality(CandidatesPushed) >= 2
    /\ output /= <<>>
    /\ output[1] >= 2
    /\ output[1] < 2 * Cardinality(CandidatesPushed)

\* C3: no item is lost or duplicated: the pops removed pairwise different
\* pushes, each popped item is the item that push inserted, every completed
\* push is either still buffered or was popped (never both), and no two
\* consumers hold the same item.
C3_NoLossNoDup ==
    LET poppedSeqs == {popLog[i].seq : i \in 1..Len(popLog)}
        bufferedSeqs == {_buffer[i].seq : i \in 1..Len(_buffer)}
    IN  /\ \A i, j \in 1..Len(popLog) : i /= j => popLog[i].seq /= popLog[j].seq
        /\ \A i, j \in 1..Len(_buffer) : i /= j => _buffer[i].seq /= _buffer[j].seq
        /\ \A i \in 1..Len(popLog) :
              /\ popLog[i].seq \in 1..Len(pushLog)
              /\ popLog[i] = pushLog[popLog[i].seq]
        /\ poppedSeqs \cup bufferedSeqs = 1..Len(pushLog)
        /\ poppedSeqs \cap bufferedSeqs = {}
        /\ \A v, w \in Consumers :
              (v /= w /\ wbuffer[v].seq > 0) => wbuffer[v].seq /= wbuffer[w].seq
        /\ \A w \in Consumers : wbuffer[w].seq > 0 => wbuffer[w].seq \in poppedSeqs

\* C3 witness: two consumers each hold an item they popped while another
\* pushed item is still buffered.
C3_Witness ==
    /\ n_threads = 2
    /\ wbuffer[1].seq > 0
    /\ wbuffer[2].seq > 0
    /\ Len(popLog) >= 3
    /\ Len(_buffer) >= 1

\* C4: the queue never holds more items than its capacity, candidates and
\* poison documents counted alike.
C4_Bounded == Len(_buffer) <= _size

\* C4 witness: the queue is full, holds a candidate and a poison document, and
\* main is waiting to push one more.
C4_Witness ==
    /\ Len(_buffer) = _size
    /\ mainPc = "push_wait"
    /\ \E i, j \in 1..Len(_buffer) : _buffer[i].poison /\ ~_buffer[j].poison

\* C5: backpressure: a push completes only in a state where the queue holds
\* fewer than capacity items, and a push that found the queue full completes
\* only after a pop removed an item since.
C5_Backpressure ==
    [][Len(pushLog') > Len(pushLog) =>
        /\ Len(_buffer) < _size
        /\ (sawFull => Len(popLog) > popsWhenFull)]_vars

\* C5 witness: a push that found the queue full and waited has completed, a
\* pop having removed an item in between.
C5_Witness ==
    /\ mainPc = "push_notify"
    /\ sawFull
    /\ Len(popLog) > popsWhenFull

\* C6: FIFO: a pop removes an item only from a non-empty queue and it is the
\* oldest one, so the items removed, in removal order, followed by the items
\* still buffered are the items pushed, in the order the pushes completed.
C6_Fifo ==
    /\ [](pushLog = popLog \o _buffer)
    /\ [][Len(popLog') > Len(popLog) =>
            /\ _buffer /= <<>>
            /\ popLog' = Append(popLog, Head(_buffer))
            /\ _buffer' = Tail(_buffer)]_vars

\* C6 witness: with two consumers popping, two items were removed while two
\* more wait in the queue.
C6_Witness ==
    /\ n_threads = 2
    /\ Len(popLog) >= 2
    /\ Len(_buffer) = 2
    /\ \E w \in Consumers : wpc[w] = "pop"

\* C7: each consumer takes exactly one poison document: never two, a consumer
\* that took one is on its way out of the loop or out (it neither pops again nor
\* scores it nor pushes it back), an exited consumer took one, stop() pushes
\* n_threads of them and after stop() every consumer has taken its one.
C7_OnePoisonEach ==
    /\ \A w \in Consumers :
          /\ poisonTaken[w] <= 1
          /\ (wpc[w] = "exited" => poisonTaken[w] = 1)
          /\ (poisonTaken[w] = 1 => wpc[w] \in {"pop_notify", "check", "exited"})
    /\ PoisonPushed <= n_threads
    /\ PoisonPushed = Cardinality({i \in 1..Len(popLog) : popLog[i].poison})
                      + Cardinality({i \in 1..Len(_buffer) : _buffer[i].poison})
    /\ (mainPc = "join" \/ StopReturned) => PoisonPushed = n_threads
    /\ StopReturned => \A w \in Consumers : poisonTaken[w] = 1

\* C7 witness: stop() has returned after two consumers each took one poison
\* document at the end of a stream of candidates.
C7_Witness ==
    /\ StopReturned
    /\ n_threads = 2
    /\ poisonTaken = [w \in Consumers |-> 1]
    /\ Cardinality(CandidatesPushed) >= 2

\* C8: once stop() has returned every consumer has exited and the hit counter
\* does not change any more.
C8_StableAfterStop == [][StopReturned => (AllExited /\ hits' = hits)]_vars

\* C8 witness: stop() has returned in a run of two consumers that counted hits.
C8_Witness ==
    /\ StopReturned
    /\ n_threads = 2
    /\ hits >= 2

\* C9: every document with an empty wordvec that was ever pushed, or that a
\* consumer holds, was made by stop(): no candidate is taken for poison.
C9_EmptyIsPoison ==
    /\ \A k \in 1..Len(pushLog) : pushLog[k].wordvec = <<>> => pushLog[k].poison
    /\ mainPc \in {"push", "push_wait"} => (buffer.wordvec = <<>> => buffer.poison)
    /\ \A w \in Consumers :
          (wbuffer[w].seq > 0 /\ wbuffer[w].wordvec = <<>>) => wbuffer[w].poison

\* C9 witness: a candidate with a non-empty vocab whose wordvec came out empty
\* (none of its terms is in df) was read and not pushed: the run ended with
\* status 5 and the queue carried nothing but the poison of two consumers.
C9_Witness ==
    /\ status = 5
    /\ mainPc = "exit"
    /\ n_threads = 2
    /\ n >= 1
    /\ Len(documents) >= 1
    /\ CandidatesPushed = {}
    /\ PoisonPushed = n_threads

\* C10: when main returns with a failure status after the consumers were
\* started, stop() has run: n_threads poison documents were pushed, every
\* consumer was joined and every consumer has exited.
C10_FailureStops ==
    (mainPc = "exit" /\ status /= 0 /\ ConsumersStarted) =>
        /\ PoisonPushed = n_threads
        /\ joined = n_threads
        /\ AllExited

\* C10 witness: main returned 3 (a candidate without url) after candidates had
\* been pushed to two consumers.
C10_Witness ==
    /\ mainPc = "exit"
    /\ status = 3
    /\ n_threads = 2
    /\ Cardinality(CandidatesPushed) >= 1

\* The statuses of the two failure categories.
PairingStatuses == {StatusReferenceUrl, StatusCandidateUrl}

DegenerateStatuses == {StatusEmptyVocab, StatusEmptyWordvec}

\* C11: a run in which some document, reference or candidate, transformed to
\* an empty wordvec ends with a degenerate-document status.
C11_DegenerateIsFatal ==
    (mainPc = "exit" /\ seen \cap {"ref_degenerate", "cand_degenerate"} /= {})
        => status \in DegenerateStatuses

ScoredTimes(i, k) == IF <<i, k>> \in DOMAIN scoreLog THEN scoreLog[<<i, k>>].times ELSE 0

\* Item k was scored against every reference document, once each.
FullyScored(k) == \A i \in 1..Len(documents) : ScoredTimes(i, k) = 1

\* The candidates (not poison) removed from the queue so far.
PoppedCandidates == {popLog[j].seq : j \in {x \in 1..Len(popLog) : ~popLog[x].poison}}

\* The consumers that hold candidate k and are not through with it.
Holders(k) ==
    {w \in Consumers : wbuffer[w].seq = k /\ wpc[w] \in {"pop_notify", "check", "score"}}

\* C13: every popped candidate is scored against every reference document
\* exactly once: no pair is ever scored twice, only popped candidates are
\* scored, a candidate a consumer is working on has been scored against
\* exactly the reference documents before the consumer's position, and a
\* candidate no consumer works on any more has been scored against all of them.
\* The score of a pair is the sum of products over the shared hashes, the pair
\* was counted as a hit exactly when that score is >= threshold, and hits is
\* the number of such pairs.
C13_ScoredOnceEach ==
    /\ \A p \in DOMAIN scoreLog :
          /\ p[1] \in 1..Len(documents)
          /\ p[2] \in PoppedCandidates
          /\ scoreLog[p].times = 1
          /\ scoreLog[p].score =
                BruteForceScore(documents[p[1]].wordvec, pushLog[p[2]].wordvec)
          /\ scoreLog[p].counted = (IF scoreLog[p].score >= threshold THEN 1 ELSE 0)
    /\ hits = Cardinality({p \in DOMAIN scoreLog : scoreLog[p].score >= threshold})
    /\ \A k \in PoppedCandidates :
          IF Holders(k) = {} THEN FullyScored(k)
          ELSE \A w \in Holders(k) : \A i \in 1..Len(documents) :
                  ScoredTimes(i, k) = (IF wpc[w] = "score" /\ i < wi[w] THEN 1 ELSE 0)

\* C13 witness: a finished run of two consumers with two reference documents
\* and two candidates in which every pair was scored and a pair that scored
\* exactly the threshold was counted.
C13_Witness ==
    /\ mainPc = "exit"
    /\ status = StatusSuccess
    /\ n_threads = 2
    /\ Len(documents) = 2
    /\ Cardinality(PoppedCandidates) = 2
    /\ threshold > 0
    /\ \A k \in PoppedCandidates : FullyScored(k)
    /\ \E p \in DOMAIN scoreLog : scoreLog[p].score = threshold /\ scoreLog[p].counted = 1

\* C14: while the worker pool is alive no step changes the reference corpus,
\* the document-frequency table, the threshold or the number of workers, and
\* every step that adds an item to the queue is a step of main (in push or in
\* stop) that moves no consumer. What does change is the queue, hits, and the
\* threads' own locals.
C14_Frame ==
    [][ConsumersStarted =>
          /\ documents' = documents
          /\ df' = df
          /\ threshold' = threshold
          /\ n_threads' = n_threads
          /\ _size' = _size
          /\ (Len(_buffer') > Len(_buffer) \/ Len(pushLog') > Len(pushLog)) =>
                (mainPc \in {"push", "stop"} /\ wpc' = wpc /\ wbuffer' = wbuffer)]_vars

\* C14 witness: the pool is alive, main has transformed a second candidate
\* with a term of the table, a pushed candidate was scored and counted.
C14_Witness ==
    /\ ConsumersStarted
    /\ ~AllExited
    /\ mainPc = "push"
    /\ n = 2
    /\ buffer.wordvec /= <<>>
    /\ hits >= 1
    /\ \E t \in Terms : df[t] >= 1

\* ------------------------------------------- DF aggregation on its own
\* The reference corpora the aggregation is checked on: up to PureMaxRefs
\* documents as ReadReference leaves them, over PureMaxTerm terms.
Corpora ==
    UNION {[1..k -> {[vocab |-> v, wordvec |-> <<>>] : v \in VocabsOver(PureMaxTerm, PureMaxCount)}]
           : k \in 0..PureMaxRefs}

\* The state when tokens_in is exhausted (main.cpp:131), for every such corpus.
InitDF ==
    /\ n_threads = 1
    /\ threshold = 1
    /\ documents \in Corpora
    /\ df = [t \in Terms |-> 0]
    /\ n = 0
    /\ hits = 0
    /\ _size = n_threads * QueueFactor
    /\ _buffer = <<>>
    /\ mainPc = "aggregate_df"
    /\ buffer = NoItem
    /\ stop_n = 0
    /\ joined = 0
    /\ status = -1
    /\ output = <<>>
    /\ wpc = [w \in 1..n_threads |-> "unstarted"]
    /\ wbuffer = [w \in 1..n_threads |-> NoItem]
    /\ wi = [w \in 1..n_threads |-> 0]
    /\ pushLog = <<>>
    /\ popLog = <<>>
    /\ sawFull = FALSE
    /\ popsWhenFull = 0
    /\ poisonTaken = [w \in 1..n_threads |-> 0]
    /\ seen = {}
    /\ scoreLog = NoScores

NextDF ==
    \/ AggregateDF
    \/ TfidfReferences

SpecDF == InitDF /\ [][NextDF]_vars

\* The reference documents whose term map contains t.
DocsWith(t) == {i \in 1..Len(documents) : t \in DOMAIN documents[i].vocab}

\* C15: after aggregation df[t] is, for every term t, the number of reference
\* documents whose term map contains t, whatever the counts in the maps; a
\* term no reference document contains has the entry 0 (none).
C15_DocumentFrequency ==
    mainPc = "tfidf" => \A t \in Terms : df[t] = Cardinality(DocsWith(t))

\* C15 witness: aggregation is done on three documents; term 1 is in documents
\* 1 and 2 but not in 3, more than once in one of them, and term 3 is in none.
C15_Witness ==
    /\ mainPc = "tfidf"
    /\ Len(documents) = 3
    /\ DocsWith(1) = {1, 2}
    /\ documents[1].vocab[1] > 1
    /\ df[1] = 2
    /\ DocsWith(3) = {}
    /\ df[3] = 0

\* ------------------------------------------------ the score on its own
\* A wordvec with the hashes of f in ascending order and its weights.
WordvecOf(f) ==
    LET hs == SortedSeq(DOMAIN f)
    IN  [k \in 1..Len(hs) |-> [hash |-> hs[k], tfidf |-> f[hs[k]]]]

\* Every wordvec strictly ascending by hash over the hashes 1..PureMaxTerm
\* with weights 1..PureMaxCount.
Wordvecs == {WordvecOf(f) : f \in VocabsOver(PureMaxTerm, PureMaxCount)}

\* One consumer about to score the candidate it popped against the only
\* reference document, for every pair of such wordvecs.
InitScore ==
    /\ n_threads = 1
    /\ threshold \in 1..MaxThreshold
    /\ \E a \in Wordvecs : documents = <<[vocab |-> EmptyVocab, wordvec |-> a]>>
    /\ df = [t \in Terms |-> 0]
    /\ n = 1
    /\ hits = 0
    /\ _size = n_threads * QueueFactor
    /\ _buffer = <<>>
    /\ mainPc = "read_cand"
    /\ buffer = NoItem
    /\ stop_n = 0
    /\ joined = 0
    /\ status = -1
    /\ output = <<>>
    /\ wpc = [w \in 1..n_threads |-> "score"]
    /\ \E b \in Wordvecs \ {<<>>} :
          /\ wbuffer = [w \in 1..n_threads |-> [wordvec |-> b, seq |-> 1, poison |-> FALSE]]
          /\ pushLog = <<[wordvec |-> b, seq |-> 1, poison |-> FALSE]>>
    /\ wi = [w \in 1..n_threads |-> 1]
    /\ popLog = pushLog
    /\ sawFull = FALSE
    /\ popsWhenFull = 0
    /\ poisonTaken = [w \in 1..n_threads |-> 0]
    /\ seen = {}
    /\ scoreLog = NoScores

NextScore == \E w \in Consumers : Score(w)

SpecScore == InitScore /\ [][NextScore]_vars

\* C16: the score the consumer computed for two wordvecs strictly ascending by
\* hash is the sum of the products of the two weights over the hashes both
\* hold, and the score with the arguments exchanged is the same.
C16_MergeJoin ==
    <<1, 1>> \in DOMAIN scoreLog =>
        /\ scoreLog[<<1, 1>>].score =
              BruteForceScore(documents[1].wordvec, wbuffer[1].wordvec)
        /\ scoreLog[<<1, 1>>].score = calculate_alignment(wbuffer[1], documents[1])

\* C16 witness: scored the hashes 1,3 against 2,3: the shared hash comes
\* after a term of either side alone, and the score is the one product.
C16_Witness ==
    /\ <<1, 1>> \in DOMAIN scoreLog
    /\ LET a == documents[1].wordvec
           b == wbuffer[1].wordvec
       IN  /\ Hashes(a) = {1, 3}
           /\ Hashes(b) = {2, 3}
           /\ scoreLog[<<1, 1>>].score = a[2].tfidf * b[2].tfidf

\* --------------------------------------------------------- shutdown
\* The candidates still waiting in the queue.
CandidatesBuffered == {j \in 1..Len(_buffer) : ~_buffer[j].poison}

\* C17: poison documents are pushed only after the last candidate, so when a
\* poison document is removed every candidate pushed before it has been
\* removed before it; no consumer has left while a candidate waits in the
\* queue; and when stop() has returned every pushed candidate has been scored
\* against every reference document.
C17_PoisonAfterCandidates ==
    /\ \A i, j \in 1..Len(pushLog) : (i < j /\ pushLog[i].poison) => pushLog[j].poison
    /\ \A j \in 1..Len(popLog) : popLog[j].poison =>
          \A k \in CandidatesPushed : k < popLog[j].seq =>
              \E i \in 1..(j - 1) : popLog[i].seq = k
    /\ (\E w \in Consumers : wpc[w] = "exited" \/ poisonTaken[w] > 0) =>
          CandidatesBuffered = {}
    /\ StopReturned => \A k \in CandidatesPushed : FullyScored(k)

\* C17 witness: one consumer has left on a poison document while the other is
\* still scoring the last candidate, and only poison is left in the queue.
C17_Witness ==
    /\ n_threads = 2
    /\ \E v, w \in Consumers :
          /\ wpc[v] = "exited"
          /\ wpc[w] = "score"
          /\ ~wbuffer[w].poison
          /\ ~FullyScored(wbuffer[w].seq)
    /\ Len(_buffer) >= 1
    /\ Cardinality(CandidatesPushed) >= 2

\* The statuses of the candidate-side errors.
CandidateErrors == {StatusCandidateUrl, StatusEmptyVocab, StatusEmptyWordvec}

\* Once main has met a candidate-side error a step reads and pushes nothing.
NothingAfterError ==
    status \in CandidateErrors =>
        /\ n' = n
        /\ status' = status
        /\ {k \in 1..Len(pushLog') : ~pushLog'[k].poison} = CandidatesPushed

\* C18: from the moment main has met a candidate-side error no candidate is
\* read or pushed any more; when main has then returned, the candidates pushed
\* are those read before the offending one (which n counts for statuses 4 and
\* 5 but not for 3), each was scored against every reference document, hits
\* counts their pairs, and nothing was printed.
C18_AbortDrains ==
    /\ [](( mainPc = "exit" /\ status \in CandidateErrors) =>
            /\ Cardinality(CandidatesPushed) =
                  n - (IF status \in DegenerateStatuses THEN 1 ELSE 0)
            /\ \A k \in CandidatesPushed : FullyScored(k)
            /\ \A w \in Consumers : ~(wbuffer[w].seq > 0 /\ wbuffer[w].wordvec = <<>>
                                       /\ ~wbuffer[w].poison)
            /\ hits = BruteForceHits
            /\ output = <<>>)
    /\ [][NothingAfterError]_vars

\* C18 witness: main returned 3 for the third document of the stream after two
\* candidates had been pushed; both were scored against two reference
\* documents and some pairs were hits.
C18_Witness ==
    /\ mainPc = "exit"
    /\ status = StatusCandidateUrl
    /\ n = 2
    /\ Len(documents) = 2
    /\ Cardinality(CandidatesPushed) = 2
    /\ hits >= 2
    /\ output = <<>>

\* C19: when stop() has returned the queue is empty, every item pushed (all
\* candidates and n_threads poison documents) was removed, every consumer has
\* left, and so no thread waits on _added or on _removed.
C19_DrainedAfterStop ==
    StopReturned =>
        /\ _buffer = <<>>
        /\ Len(popLog) = Len(pushLog)
        /\ PoisonPushed = n_threads
        /\ Cardinality({j \in 1..Len(popLog) : popLog[j].poison}) = n_threads
        /\ \A w \in Consumers : wpc[w] = "exited"
        /\ mainPc /= "push_wait"

\* C19 witness: stop() has returned after three candidates and two poison
\* documents went through a queue that had been full.
C19_Witness ==
    /\ StopReturned
    /\ n_threads = 2
    /\ Len(popLog) = 5
    /\ Cardinality(CandidatesPushed) = 3
    /\ _buffer = <<>>

====
